---- MODULE Spec2Model ----
(***************************************************************************)
(* Screenshot-to-clipboard browser extension: the selector overlay running *)
(* in the page (content_script.js, and the older content.js), the          *)
(* background service worker (the three versions of background.js kept in  *)
(* src/unnamed/part_000) and the offscreen document (offscreen.js, second  *)
(* half of content.js), together with the browser they talk to.            *)
(*                                                                         *)
(* The service worker is single threaded: a handler runs from the delivery *)
(* of one browser event (a message, the answer of a platform call) to its  *)
(* next await.  Every platform call is answered by the browser at a time   *)
(* of its choosing (the Plat... actions) and the answers are handed to the *)
(* service worker in the order they were produced (swQueue).               *)
(***************************************************************************)
EXTENDS Integers, Sequences, FiniteSets, TLC

\* Number of captureArea requests (overlay activations) a behaviour may hold.
MaxOps == 2

Ops == 1 .. MaxOps

\* clientX and clientY values a mouse event may carry: a drag between the two
\* corners selects the region {x: 10, y: 10, width: 100, height: 50}.
ClientXs == {10, 110}
ClientYs == {10, 60}

\* Values of window.devicePixelRatio.
DPRs == {1, 2}

\* Installed version of the extension: 0 = content.js with the areaSelected
\* listener, 1 = background.js using chrome.offscreen.getContexts,
\* 2 = background.js using chrome.runtime.getContexts.
Variants == {0, 1, 2}

\* The offscreen document an earlier run of the service worker left open
\* (nothing closes the document when a request ends), if there is one.
LeftoverDoc == MaxOps + 1

\* A structured reply {success, error}; error "" stands for an absent error, the
\* kind "undefined" for a missing reply.
Reply(success, error) == [kind |-> "reply", success |-> success, error |-> error]
NoReply == [kind |-> "undefined", success |-> FALSE, error |-> ""]

\* The answer of a platform call: the promise resolved (ok) or rejected (message).
NoAnswer == [ok |-> FALSE, has |-> FALSE, dataUrl |-> "", response |-> NoReply, message |-> ""]
Resolved == [NoAnswer EXCEPT !.ok = TRUE]
Rejected(m) == [NoAnswer EXCEPT !.message = m]
NoNotification == [title |-> "", message |-> ""]
NoTimer == [set |-> FALSE]
NoCoords == [x |-> 0, y |-> 0, width |-> 0, height |-> 0, devicePixelRatio |-> 0]
NoRegion == [x |-> 0, y |-> 0, width |-> 0, height |-> 0]

\* A value of a message as the receiving listener sees it: its typeof, and the
\* number when it is one, n + frac/4 with frac in 0 .. 3 (a devicePixelRatio
\* such as 1.25 or 1.5 gives coords that are no integers).
JsFraction(n, frac) == [type |-> "number", n |-> n, frac |-> frac]
JsNumber(n) == JsFraction(n, 0)
JsString == [type |-> "string", n |-> 0, frac |-> 0]
JsUndefined == [type |-> "undefined", n |-> 0, frac |-> 0]

\* request.coords as received: present is FALSE when the request has none.
NoJsCoords == [present |-> FALSE, x |-> JsUndefined, y |-> JsUndefined,
               width |-> JsUndefined, height |-> JsUndefined,
               devicePixelRatio |-> JsUndefined]

\* The coords the Coordinator sends, as they arrive: numbers stay numbers.
Serialized(coords) ==
    [present |-> TRUE, x |-> JsNumber(coords.x), y |-> JsNumber(coords.y),
     width |-> JsNumber(coords.width), height |-> JsNumber(coords.height),
     devicePixelRatio |-> JsNumber(coords.devicePixelRatio)]

VARIABLES
    variant,                  \* which version of the extension is installed
    offscreenApi,             \* chrome.offscreen is defined
    devicePixelRatio,         \* window.devicePixelRatio of the page
    tabIsHttp,                \* the tab's url starts with http:// or https://
    isAreaSelectorActive,     \* window.isAreaSelectorActive
    acts,                     \* activations / requests started so far
    ov,                       \* per activation: the closure of content_script.js
    msg,                      \* per request: the captureArea message and its reply
    bg,                       \* per request: the async flow of the captureArea handler
    creatingOffscreenPromise, \* 0 = null, i = the promise of request i's createDocument
    doc,                      \* 0 = no offscreen document, i = the one request i created,
                              \* LeftoverDoc = the one found at start
    swQueue,                  \* answers of platform calls waiting for the service worker
    wk,                       \* per request: the cropAndCopy job in the offscreen document
    actionNotifs,             \* clicks of the action on a tab that is not http(s), and the
                              \* 'Action Failed' notifications created
    lg                        \* the closure of content.js and its areaSelected messages

vars == << variant, offscreenApi, devicePixelRatio, tabIsHttp, isAreaSelectorActive,
           acts, ov, msg, bg, creatingOffscreenPromise, doc, swQueue, wk,
           actionNotifs, lg >>

----------------------------------------------------------------------------
\* Initial values of the per-request records.

OvInit == [el |-> "none", isDragging |-> FALSE, startX |-> 0, startY |-> 0,
           keyListener |-> FALSE, timer |-> NoTimer, region |-> NoRegion]

MsgInit == [st |-> "none", senderTab |-> TRUE, coords |-> NoCoords,
            reply |-> NoReply, callbacks |-> 0]

\* pc: the await the flow is suspended at; call: "sent" while the browser has
\* not answered the awaited platform call, "answered" once resp is in swQueue.
\* The remaining fields record what the flow did: notifications and replies, the
\* requests whose setup was running when this one's began (peers), whether any
\* other request was active during this one (overlapped), how the setup call
\* ended and which document was live then, and the order of the steps.
BgInit == [pc |-> "idle", call |-> "none", resp |-> NoAnswer, waitOn |-> 0,
           notifs |-> 0, notif |-> NoNotification, replies |-> 0, reply |-> NoReply,
           peers |-> {}, overlapped |-> FALSE, createCalled |-> FALSE,
           createdWhile |-> "absent", setup |-> "none", docAtReturn |-> 0,
           dataUrl |-> "", order |-> << >>]

\* st: "cropping" while cropImage is awaited, "writing" while
\* navigator.clipboard.write is, "ok" / "failed" once sendResponse was called,
\* "killed" when the document was closed under the job, "dead" once the
\* Coordinator's sendMessage was settled without a reply, "over" once the
\* request is.
\* The canvas cropImage draws on and the source rectangle it draws from.
NoCanvas == [made |-> FALSE, width |-> 0, height |-> 0, sx |-> 0, sy |-> 0,
             sWidth |-> 0, sHeight |-> 0, imgWidth |-> 0, imgHeight |-> 0]

WkInit == [st |-> "none", doc |-> 0, dataUrl |-> "", coords |-> NoJsCoords,
           cropped |-> "none", canvas |-> NoCanvas, blob |-> "none", focused |-> FALSE,
           wrote |-> FALSE, responses |-> 0, response |-> NoReply]

\* active: window.__smartScreenshotActive__; listening: the once-only mousedown
\* listener is registered; box, width, height: the selection box and its size;
\* sent, lastRect: the areaSelected messages sent and the rect of the last one.
LgInit == [active |-> FALSE, listening |-> FALSE, isSelecting |-> FALSE,
           startX |-> 0, startY |-> 0, box |-> FALSE, width |-> 0, height |-> 0,
           sent |-> 0, lastRect |-> [width |-> 0, height |-> 0], captures |-> 0]

Init ==
    /\ variant \in Variants
    /\ offscreenApi \in BOOLEAN
    /\ devicePixelRatio \in DPRs
    /\ tabIsHttp \in BOOLEAN
    /\ isAreaSelectorActive = FALSE
    /\ acts = 0
    /\ ov = [k \in Ops |-> OvInit]
    /\ msg = [k \in Ops |-> MsgInit]
    /\ bg = [k \in Ops |-> BgInit]
    /\ creatingOffscreenPromise = 0
    /\ doc \in (IF variant = 0 THEN {0} ELSE {0, LeftoverDoc})
    /\ swQueue = << >>
    /\ wk = [k \in Ops |-> WkInit]
    /\ actionNotifs = [clicks |-> 0, created |-> 0]
    /\ lg = LgInit

----------------------------------------------------------------------------
\* Selector overlay: content_script.js.

Abs(n) == IF n < 0 THEN 0 - n ELSE n

Min(a, b) == IF a < b THEN a ELSE b

\* cleanup(): the overlay and the selection box are removed, the keydown
\* listener is unregistered (window.isAreaSelectorActive is reset by the caller
\* of this operator, in the same step).
cleanup(o) == [o EXCEPT !.el = "removed", !.keyListener = FALSE]

\* The coords of the captureArea message built in the setTimeout callback.
captureAreaCoords(t, r) ==
    [x |-> t.x * r, y |-> t.y * r, width |-> t.width * r, height |-> t.height * r,
     devicePixelRatio |-> r]

\* The mouseup handler's test for sending the region.
RegionAccepted(width, height) == width > 0 /\ height > 0

\* The action.onClicked listener injecting content_script.js whatever the url.
actionOnClicked_NoUrlTest(isHttp) == "inject"

\* What the action.onClicked listener does with a tab: it refuses one whose
\* url is not http(s), with a notification, and injects content_script.js
\* otherwise.
actionOnClicked(isHttp) == IF ~isHttp THEN "refuse" ELSE "inject"

\* chrome.action.onClicked, and the top-level code of the injected script.
ActionClicked ==
    /\ variant \in {1, 2}
    /\ IF actionOnClicked(tabIsHttp) = "refuse"
       THEN /\ actionNotifs.clicks < MaxOps
            /\ actionNotifs' = [clicks |-> actionNotifs.clicks + 1,
                                created |-> actionNotifs.created + 1]
            /\ UNCHANGED << isAreaSelectorActive, acts, ov >>
       ELSE /\ ~isAreaSelectorActive
            /\ acts < MaxOps
            /\ isAreaSelectorActive' = TRUE
            /\ acts' = acts + 1
            /\ ov' = [ov EXCEPT ![acts + 1] = [@ EXCEPT !.el = "shown", !.keyListener = TRUE]]
            /\ actionNotifs' = [actionNotifs EXCEPT
                                   !.clicks = IF tabIsHttp THEN @ ELSE @ + 1]
    /\ UNCHANGED << variant, offscreenApi, devicePixelRatio, tabIsHttp, msg, bg,
                    creatingOffscreenPromise, doc, swQueue, wk, lg >>

MouseDown(k, x, y) ==
    /\ ov[k].el = "shown"
    /\ ov' = [ov EXCEPT ![k] = [@ EXCEPT !.isDragging = TRUE, !.startX = x, !.startY = y]]
    /\ UNCHANGED << variant, offscreenApi, devicePixelRatio, tabIsHttp, isAreaSelectorActive,
                    acts, msg, bg, creatingOffscreenPromise, doc, swQueue, wk,
                    actionNotifs, lg >>

\* The mouseup handler leaving the overlay displayed.
hideOverlay_StaysShown(o) == [o EXCEPT !.isDragging = FALSE]

\* The mouseup handler resets isDragging and sets the overlay's display to
\* 'none'.  startX and startY are dead from here on: the hidden overlay gets
\* no mouse event, so they are kept out of the state.
hideOverlay(o) ==
    [o EXCEPT !.isDragging = FALSE, !.el = "hidden", !.startX = 0, !.startY = 0]

MouseUp(k, endX, endY) ==
    /\ ov[k].el = "shown"
    /\ ov[k].isDragging
    /\ LET x == Min(ov[k].startX, endX)
           y == Min(ov[k].startY, endY)
           width == Abs(endX - ov[k].startX)
           height == Abs(endY - ov[k].startY)
           hidden == hideOverlay(ov[k])
       IN  IF RegionAccepted(width, height)
           THEN /\ ov' = [ov EXCEPT ![k] = [hidden EXCEPT !.timer =
                              [set |-> TRUE, x |-> x, y |-> y,
                               width |-> width, height |-> height],
                              !.region = [x |-> x, y |-> y,
                                          width |-> width, height |-> height]]]
                /\ UNCHANGED isAreaSelectorActive
           ELSE /\ ov' = [ov EXCEPT ![k] = cleanup(hidden)]
                /\ isAreaSelectorActive' = FALSE
    /\ UNCHANGED << variant, offscreenApi, devicePixelRatio, tabIsHttp, acts, msg, bg,
                    creatingOffscreenPromise, doc, swQueue, wk, actionNotifs, lg >>

\* keydown with key 'Escape': every registered handleEscKey runs cleanup().
EscapeKey ==
    /\ \E k \in Ops : ov[k].keyListener
    /\ ov' = [k \in Ops |-> IF ov[k].keyListener THEN cleanup(ov[k]) ELSE ov[k]]
    /\ isAreaSelectorActive' = FALSE
    /\ UNCHANGED << variant, offscreenApi, devicePixelRatio, tabIsHttp, acts, msg, bg,
                    creatingOffscreenPromise, doc, swQueue, wk, actionNotifs, lg >>

\* The 50 ms timer set by mouseup fires: chrome.runtime.sendMessage(captureArea).
TimerFires(k) ==
    /\ ov[k].timer.set
    /\ ov' = [ov EXCEPT ![k] = [@ EXCEPT !.timer = NoTimer]]
    /\ msg' = [msg EXCEPT ![k] = [@ EXCEPT !.st = "sent", !.senderTab = TRUE,
                     !.coords = captureAreaCoords(ov[k].timer, devicePixelRatio)]]
    /\ UNCHANGED << variant, offscreenApi, devicePixelRatio, tabIsHttp, isAreaSelectorActive,
                    acts, bg, creatingOffscreenPromise, doc, swQueue, wk, actionNotifs, lg >>

\* The sendMessage callback of the overlay runs with the Coordinator's reply.
\* The request is over: of its records only the counters and the document it
\* used are kept.
OverlayCallback(k) ==
    /\ msg[k].st = "replied"
    /\ msg[k].senderTab
    /\ msg' = [msg EXCEPT ![k] = [@ EXCEPT !.st = "closed", !.callbacks = @ + 1,
                                             !.reply = NoReply, !.coords = NoCoords]]
    /\ ov' = [ov EXCEPT ![k] = cleanup([@ EXCEPT !.region = NoRegion])]
    /\ isAreaSelectorActive' = FALSE
    /\ bg' = [bg EXCEPT ![k] = [BgInit EXCEPT !.pc = "done", !.notifs = bg[k].notifs,
                                              !.replies = bg[k].replies]]
    /\ wk' = [wk EXCEPT ![k] = [WkInit EXCEPT !.st = IF wk[k].st = "none" THEN "none" ELSE "over",
                                              !.doc = wk[k].doc,
                                              !.responses = wk[k].responses]]
    /\ UNCHANGED << variant, offscreenApi, devicePixelRatio, tabIsHttp, acts,
                    creatingOffscreenPromise, doc, swQueue, actionNotifs, lg >>

\* A captureArea message sent by an extension context that is no tab (its
\* sender has no tab property).
ExtensionSendsCaptureArea ==
    /\ variant \in {1, 2}
    /\ acts < MaxOps
    /\ acts' = acts + 1
    /\ msg' = [msg EXCEPT ![acts + 1] = [@ EXCEPT !.st = "sent", !.senderTab = FALSE]]
    /\ UNCHANGED << variant, offscreenApi, devicePixelRatio, tabIsHttp, isAreaSelectorActive,
                    ov, bg, creatingOffscreenPromise, doc, swQueue, wk, actionNotifs, lg >>

----------------------------------------------------------------------------
\* Coordinator: background.js (variants 1 and 2).

SetupPcs == {"hasDoc1", "closing", "awaitCreating", "hasDoc2", "hasDoc3", "creating"}

ActivePcs == SetupPcs \cup {"capturing", "messaging"}

MsgNoOffscreenApi == "Background: chrome.offscreen API is not available. Cannot proceed."
MsgMissingTab == "Background: Internal error - missing tab context."
MsgUnexpected == "An unexpected error occurred."
MsgUnknownWorkerError == "Unknown error from screenshot processing service."
MsgCopied == "The selected area has been copied to your clipboard."

\* a || b of JavaScript on strings.
OrElse(a, b) == IF a = "" THEN b ELSE a

\* chrome.notifications.create({title, message}).
notificationsCreate(o, title, message) ==
    [o EXCEPT !.notifs = @ + 1, !.notif = [title |-> title, message |-> message]]

\* sendResponse(r): the flow of the request ends with it on every path.
sendResponse(o, r) ==
    [o EXCEPT !.replies = @ + 1, !.reply = r, !.pc = "done", !.call = "none",
              !.resp = NoAnswer, !.order = Append(@, "reply")]

\* The catch block of the captureArea flow.
CatchError(o, m) ==
    sendResponse(notificationsCreate(o, "Screenshot Error", OrElse(m, MsgUnexpected)),
                 Reply(FALSE, "Background: " \o OrElse(m, MsgUnexpected)))

\* A platform call is issued and the flow suspends at the await named p.
Await(o, p) == [o EXCEPT !.pc = p, !.call = "sent", !.resp = NoAnswer,
                          !.order = Append(@, p)]

\* setupOffscreenDocumentForClipboard returned: the flow goes on to
\* chrome.tabs.captureVisibleTab.
SetupReturns(o) ==
    Await([o EXCEPT !.setup = "returned", !.docAtReturn = doc,
                    !.order = Append(@, "setupReturned")],
          "capturing")

\* setupOffscreenDocumentForClipboard threw.
SetupThrows(o, m) == CatchError([o EXCEPT !.setup = "threw"], m)

\* creatingOffscreenPromise = chrome.offscreen.createDocument(...); await it.
CreateDocument(o) ==
    Await([o EXCEPT !.createCalled = TRUE,
                    !.createdWhile = IF doc # 0 THEN "live"
                                     ELSE IF \E j \in Ops : bg[j].pc = "creating"
                                          THEN "creating" ELSE "absent"],
          "creating")

\* After `await closeOffscreenDocument()`: wait for a creation in flight,
\* otherwise create (variant 1) or look for a document first (variant 2).
AfterClose(o) ==
    IF creatingOffscreenPromise # 0
    THEN [o EXCEPT !.pc = "awaitCreating", !.call = "none",
                   !.waitOn = creatingOffscreenPromise]
    ELSE IF variant = 1 THEN CreateDocument(o) ELSE Await(o, "hasDoc3")

\* closeOffscreenDocument after its hasOffscreenDocument() answered.
AfterHasDocument(o, has) ==
    IF has THEN Await(o, "closing")
    ELSE AfterClose([o EXCEPT !.order = Append(@, "noDocument")])

\* closeOffscreenDocument letting the rejection of closeDocument escape.
AfterCloseDocument_Rethrows(o, a) ==
    IF a.ok THEN AfterClose(o)
    ELSE SetupThrows([o EXCEPT !.order = Append(@, "closeFailed")], a.message)

\* closeOffscreenDocument after `await chrome.offscreen.closeDocument()`: a
\* rejection is caught and logged.
AfterCloseDocument(o, a) ==
    IF a.ok THEN AfterClose(o)
    ELSE AfterClose([o EXCEPT !.order = Append(@, "closeFailed")])

\* Variant 2, after the awaited concurrent creation resolved and
\* hasOffscreenDocument() answered (line 292).
AfterConcurrentCheck(o, has) ==
    IF has THEN SetupReturns(o) ELSE Await(o, "hasDoc3")

\* Variant 2, the check before creating (line 304).
AfterFinalCheck(o, has) ==
    IF has THEN SetupReturns(o) ELSE CreateDocument(o)

\* After `await creatingOffscreenPromise` of the request's own createDocument.
AfterCreate(o, a) ==
    IF a.ok THEN SetupReturns(o) ELSE SetupThrows(o, a.message)

\* A request that awaited another request's creatingOffscreenPromise resumes.
AfterAwaitCreating(o, a) ==
    IF ~a.ok THEN SetupThrows(o, a.message)
    ELSE IF variant = 1 THEN SetupReturns(o)
    ELSE Await(o, "hasDoc2")

\* AfterCapture returning without a reply when no image was captured.
AfterCapture_SilentOnNoImage(o, a) ==
    IF ~a.ok THEN CatchError(o, a.message)
    ELSE IF a.dataUrl = ""
    THEN [o EXCEPT !.pc = "done", !.call = "none", !.resp = NoAnswer]
    ELSE Await([o EXCEPT !.dataUrl = a.dataUrl, !.order = Append(@, "imageObtained")],
               "messaging")

\* AfterCapture going on to the cropAndCopy message without an image.
AfterCapture_SendsWithoutImage(o, a) ==
    IF ~a.ok THEN CatchError(o, a.message)
    ELSE Await([o EXCEPT !.dataUrl = a.dataUrl], "messaging")

\* After `await chrome.tabs.captureVisibleTab(...)`.
AfterCapture(o, a) ==
    IF ~a.ok THEN CatchError(o, a.message)
    ELSE IF a.dataUrl = ""
    THEN CatchError(o, "Failed to capture tab: No dataUrl received")
    ELSE Await([o EXCEPT !.dataUrl = a.dataUrl, !.order = Append(@, "imageObtained")],
               "messaging")

\* AfterWorkerReply with an exception raised after the success reply, inside
\* the try block: the catch block replies again.
AfterWorkerReply_ThrowsAfterReply(o, a) ==
    LET e == [o EXCEPT !.order = Append(@, "exchangeEnded")]
        r == a.response
    IN  IF ~a.ok THEN CatchError(e, a.message)
        ELSE IF r.kind = "reply" /\ r.success
        THEN CatchError(sendResponse(notificationsCreate(e, "Screenshot Copied!", MsgCopied),
                                     Reply(TRUE, "")), "")
        ELSE sendResponse(notificationsCreate(e, "Screenshot Failed",
                                              OrElse(r.error, MsgUnknownWorkerError)),
                          Reply(FALSE, OrElse(r.error, MsgUnknownWorkerError)))

\* AfterWorkerReply testing `!offscreenResponse || offscreenResponse.success`:
\* a missing reply counts as success.
AfterWorkerReply_MissingReplyIsSuccess(o, a) ==
    LET e == [o EXCEPT !.order = Append(@, "exchangeEnded")]
        r == a.response
    IN  IF ~a.ok THEN CatchError(e, a.message)
        ELSE IF r.kind # "reply" \/ r.success
        THEN sendResponse(notificationsCreate(e, "Screenshot Copied!", MsgCopied),
                          Reply(TRUE, ""))
        ELSE sendResponse(notificationsCreate(e, "Screenshot Failed",
                                              OrElse(r.error, MsgUnknownWorkerError)),
                          Reply(FALSE, OrElse(r.error, MsgUnknownWorkerError)))

\* AfterWorkerReply reporting every failure of the offscreen document with the
\* generic message.
AfterWorkerReply_GenericError(o, a) ==
    LET e == [o EXCEPT !.order = Append(@, "exchangeEnded")]
        r == a.response
    IN  IF ~a.ok THEN CatchError(e, a.message)
        ELSE IF r.kind = "reply" /\ r.success
        THEN sendResponse(notificationsCreate(e, "Screenshot Copied!", MsgCopied),
                          Reply(TRUE, ""))
        ELSE sendResponse(notificationsCreate(e, "Screenshot Failed", MsgUnknownWorkerError),
                          Reply(FALSE, MsgUnknownWorkerError))

\* After `await chrome.runtime.sendMessage({target: 'offscreen', ...})`.
AfterWorkerReply(o, a) ==
    LET e == [o EXCEPT !.order = Append(@, "exchangeEnded")]
        r == a.response
    IN  IF ~a.ok THEN CatchError(e, a.message)
        ELSE IF r.kind = "reply" /\ r.success
        THEN sendResponse(notificationsCreate(e, "Screenshot Copied!", MsgCopied),
                          Reply(TRUE, ""))
        ELSE LET errorMsg == OrElse(IF r.kind = "reply" THEN r.error ELSE "",
                                    MsgUnknownWorkerError)
             IN  sendResponse(notificationsCreate(e, "Screenshot Failed", errorMsg),
                              Reply(FALSE, errorMsg))

\* The code that runs when the answer a of request o's awaited call arrives.
Continue(o, a) ==
    CASE o.pc = "hasDoc1" -> AfterHasDocument(o, a.has)
      [] o.pc = "closing" -> AfterCloseDocument(o, a)
      [] o.pc = "hasDoc2" -> AfterConcurrentCheck(o, a.has)
      [] o.pc = "hasDoc3" -> AfterFinalCheck(o, a.has)
      [] o.pc = "creating" -> AfterCreate(o, a)
      [] o.pc = "capturing" -> AfterCapture(o, a)
      [] o.pc = "messaging" -> AfterWorkerReply(o, a)

\* The listener calling setupOffscreenDocumentForClipboard without awaiting it.
captureAreaListener_NoAwait(o, senderTab) ==
    IF ~senderTab THEN sendResponse(o, Reply(FALSE, MsgMissingTab))
    ELSE IF ~offscreenApi THEN SetupThrows(o, MsgNoOffscreenApi)
    ELSE Await(o, "capturing")

\* The captureArea branch of the onMessage listener, up to its first await.
captureAreaListener(o, senderTab) ==
    IF ~senderTab THEN sendResponse(o, Reply(FALSE, MsgMissingTab))
    ELSE IF ~offscreenApi THEN SetupThrows(o, MsgNoOffscreenApi)
    ELSE Await(o, "hasDoc1")

\* The reply the browser hands to the sender of request k: the first
\* sendResponse of its listener.
Delivered(m, old, new) ==
    IF new.replies > old.replies /\ m.st = "received"
    THEN [m EXCEPT !.st = "replied", !.reply = new.reply]
    ELSE m

\* The value of creatingOffscreenPromise after request i's continuation ran.
PromiseAfter(i, old, new) ==
    IF new.pc = "creating" /\ old.pc # "creating" THEN i
    ELSE IF old.pc = "creating" THEN 0
    ELSE creatingOffscreenPromise

\* The continuation of request i runs with the answer a of its awaited call, and
\* with it (the promise of a createDocument having settled) the continuations
\* of the requests awaiting that promise.
Resume(i, a) ==
    LET new == [j \in Ops |->
                  IF j = i THEN Continue(bg[i], a)
                  ELSE IF bg[i].pc = "creating" /\ bg[j].pc = "awaitCreating"
                          /\ bg[j].waitOn = i
                       THEN AfterAwaitCreating(bg[j], a)
                       ELSE bg[j]]
    IN  /\ bg' = new
        /\ creatingOffscreenPromise' = PromiseAfter(i, bg[i], new[i])
        /\ msg' = [j \in Ops |-> Delivered(msg[j], bg[j], new[j])]

\* The service worker takes the next answer from its queue.
Deliver(i) ==
    /\ swQueue # << >>
    /\ Head(swQueue) = i
    /\ bg[i].call = "answered"
    /\ Resume(i, bg[i].resp)
    /\ swQueue' = Tail(swQueue)
    /\ UNCHANGED << variant, offscreenApi, devicePixelRatio, tabIsHttp, isAreaSelectorActive,
                    acts, ov, doc, wk, actionNotifs, lg >>

----------------------------------------------------------------------------
\* The browser: chrome.runtime.getContexts, chrome.offscreen, chrome.tabs.

\* The data URL captureVisibleTab resolves with, and that of a 20x20 image.
PngDataUrl == "data:image/png;base64,iVBORw0KGgo"
SmallPngDataUrl == "data:image/png;base64,iVBORw0KGgoAAAANSUhEUgAAABQAAAAU"

\* img.width and img.height once the data URL is loaded: a capture of the tab
\* has the size of the viewport in device pixels.
ImageOf(dataUrl) ==
    IF dataUrl = SmallPngDataUrl THEN [width |-> 20, height |-> 20]
    ELSE [width |-> 1280, height |-> 720]

\* The browser's answer a to request i's awaited call is queued for the service worker.
Answered(i, a) == [bg EXCEPT ![i] = [@ EXCEPT !.call = "answered", !.resp = a]]

PlatGetContexts(i) ==
    /\ bg[i].pc \in {"hasDoc1", "hasDoc2", "hasDoc3"}
    /\ bg[i].call = "sent"
    /\ bg' = Answered(i, [Resolved EXCEPT !.has = (doc # 0)])
    /\ swQueue' = Append(swQueue, i)
    /\ UNCHANGED << variant, offscreenApi, devicePixelRatio, tabIsHttp, isAreaSelectorActive,
                    acts, ov, msg, creatingOffscreenPromise, doc, wk, actionNotifs, lg >>

\* closeDocument: closes the offscreen document, ending the jobs running in it;
\* rejects when there is none.
PlatCloseDocument(i) ==
    /\ bg[i].pc = "closing"
    /\ bg[i].call = "sent"
    /\ IF doc # 0
       THEN /\ doc' = 0
            /\ wk' = [j \in Ops |-> IF wk[j].st \in {"cropping", "writing"}
                                    THEN [wk[j] EXCEPT !.st = "killed"] ELSE wk[j]]
            /\ bg' = Answered(i, Resolved)
       ELSE /\ bg' = Answered(i, Rejected("No current offscreen document."))
            /\ UNCHANGED << doc, wk >>
    /\ swQueue' = Append(swQueue, i)
    /\ UNCHANGED << variant, offscreenApi, devicePixelRatio, tabIsHttp, isAreaSelectorActive,
                    acts, ov, msg, creatingOffscreenPromise, actionNotifs, lg >>

\* createDocument: rejects while a document exists, and may fail otherwise.
PlatCreateDocument(i) ==
    /\ bg[i].pc = "creating"
    /\ bg[i].call = "sent"
    /\ IF doc # 0
       THEN /\ bg' = Answered(i, Rejected("Only a single offscreen document may be created."))
            /\ UNCHANGED doc
       ELSE \/ /\ doc' = i
               /\ bg' = Answered(i, Resolved)
            \/ /\ bg' = Answered(i, Rejected("Failed to create the offscreen document."))
               /\ UNCHANGED doc
    /\ swQueue' = Append(swQueue, i)
    /\ UNCHANGED << variant, offscreenApi, devicePixelRatio, tabIsHttp, isAreaSelectorActive,
                    acts, ov, msg, creatingOffscreenPromise, wk, actionNotifs, lg >>

\* captureVisibleTab: a PNG data URL, no data URL, or a rejection.  The
\* continuation reads and writes nothing another handler does, so the answer's
\* way through the queue is folded into this step.
PlatCaptureVisibleTab(i) ==
    /\ bg[i].pc = "capturing"
    /\ bg[i].call = "sent"
    /\ \E a \in {[Resolved EXCEPT !.dataUrl = PngDataUrl], Resolved,
                 Rejected("Failed to capture the visible tab.")} :
           Resume(i, a)
    /\ UNCHANGED << variant, offscreenApi, devicePixelRatio, tabIsHttp, isAreaSelectorActive,
                    acts, ov, doc, swQueue, wk, actionNotifs, lg >>

----------------------------------------------------------------------------
\* Offscreen document: offscreen.js (content.js from line 67).

StartsWith(str, prefix) ==
    Len(str) >= Len(prefix) /\ SubSeq(str, 1, Len(prefix)) = prefix

\* typeof v !== 'number'
NotANumber(v) == v.type # "number"

\* v <= 0 for a number v.
NotPositive(v) == v.n < 0 \/ (v.n = 0 /\ v.frac = 0)

\* The digits after the point of a number with frac quarters.
Quarters(frac) ==
    CASE frac = 1 -> ".25" [] frac = 2 -> ".5" [] frac = 3 -> ".75" [] OTHER -> ""

\* `${v}` for a number v.
NumberToString(v) ==
    IF v.n < 0 /\ v.frac # 0
    THEN "-" \o ToString(0 - v.n - 1) \o Quarters(4 - v.frac)
    ELSE ToString(v.n) \o Quarters(v.frac)

\* The checks of the cropAndCopy flow without the typeof tests on coords.
ValidateRequest_NoTypeCheck(dataUrl, coords) ==
    IF ~StartsWith(dataUrl, "data:image/") THEN "Invalid or missing dataUrl."
    ELSE IF ~coords.present THEN "Invalid or missing coordinates."
    ELSE IF (~NotANumber(coords.width) /\ NotPositive(coords.width))
            \/ (~NotANumber(coords.height) /\ NotPositive(coords.height))
    THEN "Crop dimensions are invalid (width: " \o NumberToString(coords.width)
         \o ", height: " \o NumberToString(coords.height) \o "). Must be positive."
    ELSE ""

\* The checks at the head of the cropAndCopy flow: "" when the request passes.
ValidateRequest(dataUrl, coords) ==
    IF ~StartsWith(dataUrl, "data:image/") THEN "Invalid or missing dataUrl."
    ELSE IF \/ ~coords.present
            \/ NotANumber(coords.x) \/ NotANumber(coords.y)
            \/ NotANumber(coords.width) \/ NotANumber(coords.height)
    THEN "Invalid or missing coordinates."
    ELSE IF NotPositive(coords.width) \/ NotPositive(coords.height)
    THEN "Crop dimensions are invalid (width: " \o NumberToString(coords.width)
         \o ", height: " \o NumberToString(coords.height) \o "). Must be positive."
    ELSE ""

\* The reply built in the catch block of the cropAndCopy flow.
ErrorReply(name, message) ==
    Reply(FALSE, "Offscreen: " \o OrElse(name, "Error") \o " - "
                 \o OrElse(message, "Unknown error"))

\* What cropImage's promise may settle with: the image fails to load, drawImage
\* throws, toBlob yields null, an empty blob or a blob.
CropOutcomes == {"loadError", "drawError", "nullBlob", "emptyBlob", "blob"}

\* cropImage rejecting when toBlob yields an empty blob.
CropError_EmptyBlobRejected(outcome) ==
    CASE outcome = "loadError" ->
           "Image loading failed in offscreen document. The dataUrl might be malformed or too long."
      [] outcome = "drawError" -> "drawImage failed: InvalidStateError - The image is broken."
      [] outcome \in {"nullBlob", "emptyBlob"} -> "Canvas toBlob failed to produce a blob."
      [] OTHER -> ""

\* The message of the Error cropImage rejects with, "" when it resolves.
CropError(outcome) ==
    CASE outcome = "loadError" ->
           "Image loading failed in offscreen document. The dataUrl might be malformed or too long."
      [] outcome = "drawError" -> "drawImage failed: InvalidStateError - The image is broken."
      [] outcome = "nullBlob" -> "Canvas toBlob failed to produce a blob."
      [] OTHER -> ""

\* Math.round cutting the fraction off.
MathRound_Truncates(v) == v.n

\* Math.round(v): the nearest integer, the upper one of two equally near.
MathRound(v) == IF v.frac >= 2 THEN v.n + 1 ELSE v.n

\* Math.max(a, b)
MathMax(a, b) == IF a >= b THEN a ELSE b

\* The canvas img.onload creates for coords and the source rectangle of its
\* drawImage call; the size of the image enters a console warning only.
cropImageCanvas(coords, img) ==
    [made |-> TRUE,
     width |-> MathMax(1, MathRound(coords.width)),
     height |-> MathMax(1, MathRound(coords.height)),
     sx |-> MathRound(coords.x), sy |-> MathRound(coords.y),
     sWidth |-> MathMax(1, MathRound(coords.width)),
     sHeight |-> MathMax(1, MathRound(coords.height)),
     imgWidth |-> img.width, imgHeight |-> img.height]

\* The canvas of the job w once cropImage settled with outcome: img.onload
\* has run unless the image failed to load.
CanvasAfter(w, outcome) ==
    IF outcome = "loadError" THEN NoCanvas
    ELSE cropImageCanvas(w.coords, ImageOf(w.dataUrl))

\* sendResponse of the offscreen listener.
workerSendResponse(w, r) ==
    [w EXCEPT !.st = IF r.success THEN "ok" ELSE "failed", !.responses = @ + 1,
              !.response = r]

\* The cropAndCopy flow up to `await cropImage(dataUrl, coords)`.
cropAndCopyStart(w, dataUrl, coords) ==
    IF ValidateRequest(dataUrl, coords) # ""
    THEN workerSendResponse([w EXCEPT !.dataUrl = dataUrl, !.coords = coords],
                            ErrorReply("Error", ValidateRequest(dataUrl, coords)))
    ELSE [w EXCEPT !.st = "cropping", !.dataUrl = dataUrl, !.coords = coords]

\* typeof window.focus in the offscreen document: a document's window has
\* the focus method.
TypeofWindowFocus == "function"

\* The cropAndCopy flow with a rejection of cropImage escaping its catch block.
cropAndCopyCropped_ErrorEscapes(w, outcome) ==
    IF CropError(outcome) # ""
    THEN [w EXCEPT !.st = "failed", !.cropped = outcome, !.canvas = CanvasAfter(w, outcome)]
    ELSE [w EXCEPT !.st = "writing", !.cropped = outcome, !.canvas = CanvasAfter(w, outcome), !.blob = outcome,
                   !.focused = (TypeofWindowFocus = "function")]

\* The cropAndCopy flow without the call of window.focus().
cropAndCopyCropped_NoFocus(w, outcome) ==
    IF CropError(outcome) # ""
    THEN workerSendResponse([w EXCEPT !.cropped = outcome, !.canvas = CanvasAfter(w, outcome)],
                            ErrorReply("Error", CropError(outcome)))
    ELSE [w EXCEPT !.st = "writing", !.cropped = outcome, !.canvas = CanvasAfter(w, outcome), !.blob = outcome]

\* From the settling of cropImage to `await navigator.clipboard.write(...)`:
\* window.focus() is called if it is a function, then the write is issued.
cropAndCopyCropped(w, outcome) ==
    IF CropError(outcome) # ""
    THEN workerSendResponse([w EXCEPT !.cropped = outcome, !.canvas = CanvasAfter(w, outcome)],
                            ErrorReply("Error", CropError(outcome)))
    ELSE [w EXCEPT !.st = "writing", !.cropped = outcome, !.canvas = CanvasAfter(w, outcome), !.blob = outcome,
                   !.focused = (TypeofWindowFocus = "function")]

\* The cropAndCopy flow replying success whatever became of the clipboard write.
cropAndCopyWritten_AlwaysSuccess(w, written) ==
    workerSendResponse([w EXCEPT !.wrote = written], Reply(TRUE, ""))

\* From the settling of navigator.clipboard.write to sendResponse.
cropAndCopyWritten(w, written) ==
    IF written THEN workerSendResponse([w EXCEPT !.wrote = TRUE], Reply(TRUE, ""))
    ELSE workerSendResponse(w, ErrorReply("NotAllowedError", "Document is not focused."))

\* The listener of the offscreen document handling a message whatever its
\* target.
offscreenListener_NoTargetCheck(w, request) ==
    IF request.action = "cropAndCopy"
    THEN cropAndCopyStart(w, request.dataUrl, request.coords)
    ELSE workerSendResponse(w, Reply(FALSE, "Offscreen: Unknown action '"
                                            \o request.action \o "'"))

\* The onMessage listener of the offscreen document: a message for another
\* target is ignored, an action other than cropAndCopy is refused at once.
offscreenListener(w, request) ==
    IF request.target # "offscreen" THEN w
    ELSE IF request.action = "cropAndCopy"
    THEN cropAndCopyStart(w, request.dataUrl, request.coords)
    ELSE workerSendResponse(w, Reply(FALSE, "Offscreen: Unknown action '"
                                            \o request.action \o "'"))

\* The captureArea message as a listener receives it: it has no target
\* ("" stands for undefined) and no dataUrl.
captureAreaMessage(m) ==
    [target |-> "", action |-> "captureArea", dataUrl |-> "", coords |-> Serialized(m.coords)]

\* chrome.runtime.sendMessage delivers captureArea to the onMessage listeners
\* of every extension context: that of the service worker and, when an
\* offscreen document is open, that of the offscreen document.
OnCaptureArea(i) ==
    /\ msg[i].st = "sent"
    /\ LET others == {j \in Ops \ {i} : bg[j].pc \in ActivePcs}
           o == [bg[i] EXCEPT !.peers = {j \in Ops \ {i} : bg[j].pc \in SetupPcs},
                              !.overlapped = others # {}]
           new == [j \in Ops |->
                     IF j = i THEN captureAreaListener(o, msg[i].senderTab)
                     ELSE IF msg[i].senderTab /\ j \in others
                          THEN [bg[j] EXCEPT !.overlapped = TRUE]
                          ELSE bg[j]]
       IN  /\ bg' = new
           /\ msg' = [msg EXCEPT ![i] = Delivered([@ EXCEPT !.st = "received"], bg[i], new[i])]
    /\ wk' = [wk EXCEPT ![i] = IF doc # 0
                               THEN offscreenListener(@, captureAreaMessage(msg[i]))
                               ELSE @]
    /\ UNCHANGED << variant, offscreenApi, devicePixelRatio, tabIsHttp, isAreaSelectorActive,
                    acts, ov, creatingOffscreenPromise, doc, swQueue, actionNotifs, lg >>

\* The offscreen document's reply, if the job has sent one, settles the
\* Coordinator's sendMessage (whose continuation, like that of
\* captureVisibleTab, is folded into the step).
Exchange(i, w) ==
    /\ wk' = [wk EXCEPT ![i] = w]
    /\ IF w.responses > wk[i].responses
       THEN Resume(i, [Resolved EXCEPT !.response = w.response])
       ELSE UNCHANGED << bg, msg, creatingOffscreenPromise >>

\* The Coordinator scaling the coords of the request by its devicePixelRatio.
cropAndCopyMessage_ScalesAgain(o, request) ==
    [target |-> "offscreen", action |-> "cropAndCopy", dataUrl |-> o.dataUrl,
     coords |-> captureAreaCoords(request.coords, request.coords.devicePixelRatio)]

\* The message the Coordinator sends to the offscreen document.
cropAndCopyMessage(o, request) ==
    [target |-> "offscreen", action |-> "cropAndCopy", dataUrl |-> o.dataUrl,
     coords |-> request.coords]

\* chrome.runtime.sendMessage of the Coordinator reaches the offscreen
\* document's listener, or finds no receiver.
PlatSendMessage(i) ==
    /\ bg[i].pc = "messaging"
    /\ bg[i].call = "sent"
    /\ wk[i].st = "none"
    /\ IF doc = 0
       THEN /\ Resume(i, Rejected("Could not establish connection. Receiving end does not exist."))
            /\ wk' = [wk EXCEPT ![i] = [@ EXCEPT !.st = "dead"]]
       ELSE LET m == cropAndCopyMessage(bg[i], msg[i])
            IN  Exchange(i, offscreenListener([wk[i] EXCEPT !.doc = doc],
                                              [m EXCEPT !.coords = Serialized(m.coords)]))
    /\ UNCHANGED << variant, offscreenApi, devicePixelRatio, tabIsHttp, isAreaSelectorActive,
                    acts, ov, doc, swQueue, actionNotifs, lg >>

WorkerCropSettles(i) ==
    /\ wk[i].st = "cropping"
    /\ \E outcome \in CropOutcomes : Exchange(i, cropAndCopyCropped(wk[i], outcome))
    /\ UNCHANGED << variant, offscreenApi, devicePixelRatio, tabIsHttp, isAreaSelectorActive,
                    acts, ov, doc, swQueue, actionNotifs, lg >>

WorkerClipboardSettles(i) ==
    /\ wk[i].st = "writing"
    /\ \E written \in BOOLEAN : Exchange(i, cropAndCopyWritten(wk[i], written))
    /\ UNCHANGED << variant, offscreenApi, devicePixelRatio, tabIsHttp, isAreaSelectorActive,
                    acts, ov, doc, swQueue, actionNotifs, lg >>

\* The document was closed under the job: the Coordinator's sendMessage is
\* rejected, or resolves without a reply.
PlatChannelClosed(i) ==
    /\ wk[i].st = "killed"
    /\ wk' = [wk EXCEPT ![i] = [@ EXCEPT !.st = "dead"]]
    /\ \E a \in {Resolved, Rejected("The message port closed before a response was received.")} :
           Resume(i, a)
    /\ UNCHANGED << variant, offscreenApi, devicePixelRatio, tabIsHttp, isAreaSelectorActive,
                    acts, ov, doc, swQueue, actionNotifs, lg >>

----------------------------------------------------------------------------
\* Variant 0: the popup, content.js (to line 65) and the areaSelected listener.

\* The popup's start button injects content.js, which runs its top-level code.
PopupStart ==
    /\ variant = 0
    /\ ~lg.active
    /\ lg.sent < MaxOps
    /\ lg' = [lg EXCEPT !.active = TRUE, !.listening = TRUE]
    /\ UNCHANGED << variant, offscreenApi, devicePixelRatio, tabIsHttp, isAreaSelectorActive,
                    acts, ov, msg, bg, creatingOffscreenPromise, doc, swQueue, wk,
                    actionNotifs >>

\* onMouseDown, registered with {once: true}.
onMouseDown(x, y) ==
    /\ lg.listening
    /\ ~lg.isSelecting
    /\ lg' = [lg EXCEPT !.listening = FALSE, !.isSelecting = TRUE, !.startX = x,
                        !.startY = y, !.box = TRUE, !.width = 0, !.height = 0]
    /\ UNCHANGED << variant, offscreenApi, devicePixelRatio, tabIsHttp, isAreaSelectorActive,
                    acts, ov, msg, bg, creatingOffscreenPromise, doc, swQueue, wk,
                    actionNotifs >>

onMouseMove(x, y) ==
    /\ lg.isSelecting
    /\ lg.box
    /\ lg' = [lg EXCEPT !.width = Abs(x - lg.startX), !.height = Abs(y - lg.startY)]
    /\ lg'.width # lg.width \/ lg'.height # lg.height
    /\ UNCHANGED << variant, offscreenApi, devicePixelRatio, tabIsHttp, isAreaSelectorActive,
                    acts, ov, msg, bg, creatingOffscreenPromise, doc, swQueue, wk,
                    actionNotifs >>

\* onMouseUp: the areaSelected message is sent with the box's rectangle.
onMouseUp ==
    /\ lg.isSelecting
    /\ lg.box
    /\ lg' = [lg EXCEPT !.box = FALSE, !.isSelecting = FALSE, !.active = FALSE,
                        !.sent = @ + 1, !.width = 0, !.height = 0,
                        !.lastRect = [width |-> lg.width, height |-> lg.height]]
    /\ UNCHANGED << variant, offscreenApi, devicePixelRatio, tabIsHttp, isAreaSelectorActive,
                    acts, ov, msg, bg, creatingOffscreenPromise, doc, swQueue, wk,
                    actionNotifs >>

\* The areaSelected listener of the service worker: captures the visible tab.
OnAreaSelected ==
    /\ lg.captures < lg.sent
    /\ lg' = [lg EXCEPT !.captures = @ + 1]
    /\ UNCHANGED << variant, offscreenApi, devicePixelRatio, tabIsHttp, isAreaSelectorActive,
                    acts, ov, msg, bg, creatingOffscreenPromise, doc, swQueue, wk,
                    actionNotifs >>

----------------------------------------------------------------------------

Next ==
    \/ ActionClicked
    \/ \E k \in Ops, x \in ClientXs, y \in ClientYs : MouseDown(k, x, y)
    \/ \E k \in Ops, x \in ClientXs, y \in ClientYs : MouseUp(k, x, y)
    \/ EscapeKey
    \/ \E k \in Ops : TimerFires(k)
    \/ \E k \in Ops : OverlayCallback(k)
    \/ ExtensionSendsCaptureArea
    \/ \E i \in Ops : OnCaptureArea(i)
    \/ \E i \in Ops : Deliver(i)
    \/ \E i \in Ops : PlatGetContexts(i)
    \/ \E i \in Ops : PlatCloseDocument(i)
    \/ \E i \in Ops : PlatCreateDocument(i)
    \/ \E i \in Ops : PlatCaptureVisibleTab(i)
    \/ \E i \in Ops : PlatSendMessage(i)
    \/ \E i \in Ops : WorkerCropSettles(i)
    \/ \E i \in Ops : WorkerClipboardSettles(i)
    \/ \E i \in Ops : PlatChannelClosed(i)
    \/ PopupStart
    \/ \E x \in ClientXs, y \in ClientYs : onMouseDown(x, y)
    \/ \E x \in ClientXs, y \in ClientYs : onMouseMove(x, y)
    \/ onMouseUp
    \/ OnAreaSelected

Spec == Init /\ [][Next]_vars

\* The browser answers every call, delivers every message and fires every
\* timer; the service worker runs every continuation handed to it.  The user's
\* gestures (clicks, mouse events, Escape) are under no obligation.
Fairness ==
    /\ \A k \in Ops : WF_vars(TimerFires(k))
    /\ \A k \in Ops : WF_vars(OverlayCallback(k))
    /\ \A i \in Ops : WF_vars(OnCaptureArea(i))
    /\ \A i \in Ops : WF_vars(Deliver(i))
    /\ \A i \in Ops : WF_vars(PlatGetContexts(i))
    /\ \A i \in Ops : WF_vars(PlatCloseDocument(i))
    /\ \A i \in Ops : WF_vars(PlatCreateDocument(i))
    /\ \A i \in Ops : WF_vars(PlatCaptureVisibleTab(i))
    /\ \A i \in Ops : WF_vars(PlatSendMessage(i))
    /\ \A i \in Ops : WF_vars(WorkerCropSettles(i))
    /\ \A i \in Ops : WF_vars(WorkerClipboardSettles(i))
    /\ \A i \in Ops : WF_vars(PlatChannelClosed(i))

FairSpec == Spec /\ Fairness

----------------------------------------------------------------------------
\* The offscreen document on its own: its listener is handed any message an
\* extension context may send, and its awaits settle.

JsValues == {JsNumber(-1), JsNumber(0), JsFraction(0, 1), JsNumber(10), JsFraction(10, 1),
             JsFraction(10, 2), JsString, JsUndefined}

ProbeCoords ==
    {NoJsCoords} \cup
    [present : {TRUE}, x : {JsNumber(0), JsFraction(2, 2), JsString},
     y : {JsNumber(0), JsFraction(-1, 2), JsUndefined},
     width : JsValues, height : JsValues, devicePixelRatio : {JsNumber(1)}]

ProbeRequests ==
    [target : {"offscreen", "background"}, action : {"cropAndCopy", "ping"},
     dataUrl : {PngDataUrl, SmallPngDataUrl, ""}, coords : ProbeCoords]

\* A message arrives at the listener of the offscreen document (one job is
\* followed: the first of Ops).
OffscreenReceives(i, request) ==
    /\ \A j \in Ops : i <= j
    /\ doc # 0
    /\ wk[i].st = "none"
    /\ wk' = [wk EXCEPT ![i] = offscreenListener([@ EXCEPT !.doc = doc], request)]
    /\ wk' # wk
    /\ UNCHANGED << variant, offscreenApi, devicePixelRatio, tabIsHttp, isAreaSelectorActive,
                    acts, ov, msg, bg, creatingOffscreenPromise, doc, swQueue,
                    actionNotifs, lg >>

\* `await cropImage(dataUrl, coords)` settles.
OffscreenCropSettles(i) ==
    /\ wk[i].st = "cropping"
    /\ \E outcome \in CropOutcomes : wk' = [wk EXCEPT ![i] = cropAndCopyCropped(@, outcome)]
    /\ UNCHANGED << variant, offscreenApi, devicePixelRatio, tabIsHttp, isAreaSelectorActive,
                    acts, ov, msg, bg, creatingOffscreenPromise, doc, swQueue,
                    actionNotifs, lg >>

\* `await navigator.clipboard.write(...)` settles.
OffscreenClipboardSettles(i) ==
    /\ wk[i].st = "writing"
    /\ \E written \in BOOLEAN : wk' = [wk EXCEPT ![i] = cropAndCopyWritten(@, written)]
    /\ UNCHANGED << variant, offscreenApi, devicePixelRatio, tabIsHttp, isAreaSelectorActive,
                    acts, ov, msg, bg, creatingOffscreenPromise, doc, swQueue,
                    actionNotifs, lg >>

\* The service worker is idle and an offscreen document is open.
WorkerInit ==
    /\ Init
    /\ variant = 2
    /\ offscreenApi
    /\ tabIsHttp
    /\ devicePixelRatio = 1
    /\ doc = LeftoverDoc

WorkerNext ==
    \/ \E i \in Ops, request \in ProbeRequests : OffscreenReceives(i, request)
    \/ \E i \in Ops : OffscreenCropSettles(i)
    \/ \E i \in Ops : OffscreenClipboardSettles(i)

WorkerSpec == WorkerInit /\ [][WorkerNext]_vars

\* cropImage and navigator.clipboard.write settle.
WorkerFairness ==
    \A i \in Ops : /\ WF_vars(OffscreenCropSettles(i))
                   /\ WF_vars(OffscreenClipboardSettles(i))

FairWorkerSpec == WorkerSpec /\ WorkerFairness

----------------------------------------------------------------------------
\* Properties.

\* Requests i and j ran setupOffscreenDocumentForClipboard concurrently (j's
\* call was running when i's began), and both calls have returned.
ConcurrentSetups(i, j) ==
    /\ i # j
    /\ j \in bg[i].peers
    /\ bg[i].setup = "returned"
    /\ bg[j].setup = "returned"

\* C1: two concurrent calls of setupOffscreenDocumentForClipboard that both
\* return have invoked createDocument exactly once between them, and a live
\* offscreen document exists at the moment each of them returns.
C1_ConcurrentSetupCreatesOnce ==
    \A i, j \in Ops :
        ConcurrentSetups(i, j) =>
            /\ bg[i].createCalled # bg[j].createCalled
            /\ bg[i].docAtReturn # 0
            /\ bg[j].docAtReturn # 0

\* C2: createDocument is only invoked from the ABSENT state, never while an
\* offscreen document is live and never while another createDocument call is
\* in flight.
C2_CreateOnlyWhenAbsent ==
    \A i \in Ops : bg[i].createCalled => bg[i].createdWhile = "absent"

\* C3: sendResponse is called at most once for every captureArea request.
C3_AtMostOneReply ==
    \A i \in Ops : bg[i].replies <= 1

\* A request was answered after the offscreen document reported a failure,
\* another without a tab.
C3_Witness ==
    /\ \E i \in Ops : bg[i].replies = 1 /\ wk[i].st = "failed"
    /\ \E i \in Ops : bg[i].replies = 1 /\ ~msg[i].senderTab

\* C4: once a region with positive width and height was selected (the overlay's
\* timer is set), the Coordinator's reply eventually reaches the overlay's
\* callback.
C4_ReplyEventuallyDelivered ==
    \A k \in Ops : ov[k].timer.set ~> (msg[k].st = "closed")

\* Two requests that shared an offscreen document have both been answered.
C4_Witness ==
    /\ \A k \in Ops : msg[k].st = "closed"
    /\ \E i, j \in Ops : i # j /\ wk[i].doc # 0 /\ wk[i].doc = wk[j].doc

\* C5: every request that was replied to has created exactly one notification
\* before or together with its reply.
C5_NotificationOnEveryPath ==
    \A i \in Ops : bg[i].replies >= 1 => bg[i].notifs = 1

\* C6: a gesture whose region has width <= 0 or height <= 0 sends no message to
\* the background context and creates no notification.
C6_NoMessageForEmptyRegion ==
    /\ \A k \in Ops :
           (msg[k].senderTab /\ msg[k].st \in {"sent", "received", "replied"}) =>
               msg[k].coords.width > 0 /\ msg[k].coords.height > 0
    /\ \A k \in Ops : (ov[k].el = "removed" /\ msg[k].st = "none" /\ ~ov[k].timer.set) =>
                          bg[k].notifs = 0
    /\ lg.sent > 0 => (lg.lastRect.width > 0 /\ lg.lastRect.height > 0)

\* C7: the Coordinator reports success, and creates the success notification,
\* only on a reply of the offscreen document with success = true; when the
\* exchange ends without a reply the request is answered with a failure.
C7_SuccessOnlyOnWorkerSuccess ==
    \A i \in Ops :
        /\ ((bg[i].reply.kind = "reply" /\ bg[i].reply.success)
              \/ bg[i].notif.title = "Screenshot Copied!")
               => (wk[i].st = "ok" /\ wk[i].response.success)
        /\ (bg[i].pc = "done" /\ wk[i].st = "dead")
               => /\ bg[i].replies = 1
                  /\ ~bg[i].reply.success
                  /\ msg[i].st = "replied"
                  /\ msg[i].reply.kind = "reply"
                  /\ ~msg[i].reply.success

\* The document was closed under a job whose sendMessage then resolved without
\* a reply, and the request was answered.
C7_Witness ==
    \E i \in Ops : /\ wk[i].st = "dead"
                   /\ wk[i].doc # 0
                   /\ bg[i].pc = "done"
                   /\ bg[i].notif.message = MsgUnknownWorkerError

\* C8: the error E of a failure reply of the offscreen document is the error of
\* the Coordinator's reply and the message of its notification, unchanged.
C8_WorkerErrorVerbatim ==
    \A i \in Ops :
        (bg[i].pc = "done" /\ wk[i].st = "failed") =>
            /\ bg[i].reply = Reply(FALSE, wk[i].response.error)
            /\ bg[i].notif.message = wk[i].response.error
            /\ msg[i].reply = Reply(FALSE, wk[i].response.error)

\* The offscreen document reported that the clipboard write was refused.
C8_Witness ==
    \E i \in Ops : /\ bg[i].pc = "done"
                   /\ wk[i].st = "failed"
                   /\ wk[i].response = ErrorReply("NotAllowedError", "Document is not focused.")

\* C9: the offscreen document that receives a request's cropAndCopy
\* was created by that request and receives no other request's cropAndCopy.
C9_FreshWorkerPerOperation ==
    \A i \in Ops :
        wk[i].doc # 0 => (wk[i].doc = i /\ \A j \in Ops \ {i} : wk[j].doc # wk[i].doc)

\* The first position of the step e in the sequence s, 0 when it is absent.
Pos(s, e) ==
    IF \E n \in DOMAIN s : s[n] = e
    THEN CHOOSE n \in DOMAIN s : s[n] = e /\ \A m \in 1 .. (n - 1) : s[m] # e
    ELSE 0

\* C10: within one request captureVisibleTab is called only after the setup
\* call returned (and no call of the setup follows it), cropAndCopy is sent
\* only after an image was obtained, and the reply is sent only after the
\* exchange with the offscreen document has ended.
C10_StepsInOrder ==
    \A i \in Ops :
        LET s == bg[i].order
        IN  /\ Pos(s, "capturing") # 0 =>
                   /\ Pos(s, "setupReturned") # 0
                   /\ Pos(s, "setupReturned") < Pos(s, "capturing")
                   /\ \A n \in DOMAIN s : s[n] \in SetupPcs => n < Pos(s, "setupReturned")
            /\ Pos(s, "messaging") # 0 =>
                   /\ Pos(s, "imageObtained") # 0
                   /\ Pos(s, "capturing") < Pos(s, "imageObtained")
                   /\ Pos(s, "imageObtained") < Pos(s, "messaging")
            /\ (Pos(s, "reply") # 0 /\ Pos(s, "messaging") # 0) =>
                   /\ Pos(s, "exchangeEnded") # 0
                   /\ Pos(s, "messaging") < Pos(s, "exchangeEnded")
                   /\ Pos(s, "exchangeEnded") < Pos(s, "reply")

\* A request went through setup, capture and the exchange, and replied.
C10_Witness ==
    \E i \in Ops : /\ Pos(bg[i].order, "exchangeEnded") # 0
                   /\ Pos(bg[i].order, "reply") # 0
                   /\ Pos(bg[i].order, "closing") # 0

\* The setup of request i threw, or its captureVisibleTab ended without an image.
CreationOrCaptureFailed(i) ==
    \/ bg[i].setup = "threw"
    \/ /\ Pos(bg[i].order, "capturing") # 0
       /\ bg[i].pc # "capturing"
       /\ Pos(bg[i].order, "imageObtained") = 0

\* C11: a request whose offscreen document could not be set up, or whose tab
\* capture gave no image, is answered with {success: false} and a non-empty
\* error, has created a failure notification, and has sent no cropAndCopy
\* message.
C11_ResourceFailureReported ==
    \A i \in Ops :
        CreationOrCaptureFailed(i) =>
            /\ bg[i].replies = 1
            /\ bg[i].reply.kind = "reply"
            /\ ~bg[i].reply.success
            /\ bg[i].reply.error # ""
            /\ msg[i].reply = bg[i].reply
            /\ bg[i].notifs = 1
            /\ bg[i].notif.title = "Screenshot Error"
            /\ bg[i].notif.message # ""
            /\ Pos(bg[i].order, "messaging") = 0
            /\ wk[i].st = "none"
            /\ wk[i].responses = 0

\* One request's own createDocument was rejected, another's capture resolved
\* without a data URL.
C11_Witness ==
    /\ \E i \in Ops : bg[i].setup = "threw" /\ bg[i].createCalled
    /\ \E i \in Ops : bg[i].notif.message = "Failed to capture tab: No dataUrl received"

\* closeOffscreenDocument of request i found no document to close, or its
\* closeDocument was rejected because the document was gone.
ClosedNothing(i) ==
    Pos(bg[i].order, "noDocument") # 0 \/ Pos(bg[i].order, "closeFailed") # 0

C13_CoordsScaledOnce ==
    \A i \in Ops :
        (wk[i].doc # 0 /\ wk[i].st # "over") =>
            wk[i].coords = [present |-> TRUE,
                            x |-> JsNumber(ov[i].region.x * devicePixelRatio),
                            y |-> JsNumber(ov[i].region.y * devicePixelRatio),
                            width |-> JsNumber(ov[i].region.width * devicePixelRatio),
                            height |-> JsNumber(ov[i].region.height * devicePixelRatio),
                            devicePixelRatio |-> JsNumber(devicePixelRatio)]

\* The region {10, 10, 100, 50} selected with devicePixelRatio 2 reached the
\* offscreen document as {20, 20, 200, 100}.
C13_Witness ==
    \E i \in Ops :
        /\ devicePixelRatio = 2
        /\ ov[i].region = [x |-> 10, y |-> 10, width |-> 100, height |-> 50]
        /\ wk[i].doc # 0
        /\ wk[i].coords.present
        /\ wk[i].coords.x = JsNumber(20)
        /\ wk[i].coords.y = JsNumber(20)
        /\ wk[i].coords.width = JsNumber(200)
        /\ wk[i].coords.height = JsNumber(100)

\* The coords c fail the listener's requirements: missing, a non-numeric x, y,
\* width or height, or a width or height that is not positive.
BadCoords(c) ==
    \/ ~c.present
    \/ \E v \in {c.x, c.y, c.width, c.height} : v.type # "number"
    \/ 4 * c.width.n + c.width.frac <= 0
    \/ 4 * c.height.n + c.height.frac <= 0

\* C14: a cropAndCopy request with such coords is answered {success: false}
\* with an error, and neither cropImage nor the clipboard write is reached.
C14_BadCoordsRejected ==
    \A i \in Ops :
        (wk[i].st # "none" /\ BadCoords(wk[i].coords)) =>
            /\ wk[i].st = "failed"
            /\ wk[i].responses = 1
            /\ wk[i].response.kind = "reply"
            /\ ~wk[i].response.success
            /\ wk[i].response.error # ""
            /\ wk[i].blob = "none"
            /\ ~wk[i].focused
            /\ ~wk[i].wrote

\* A request with a valid dataUrl, numeric x and y and a string as width was
\* refused.
C14_Witness ==
    \E i \in Ops :
        /\ wk[i].coords.present
        /\ wk[i].coords.x.type = "number"
        /\ wk[i].coords.y.type = "number"
        /\ wk[i].coords.width.type = "string"
        /\ wk[i].response = ErrorReply("Error", "Invalid or missing coordinates.")

\* C15: the offscreen document answers every cropAndCopy request addressed to
\* it exactly once, with {success: true} or with {success: false, error}: at
\* no time has it sent two replies, and a request it has taken up is
\* eventually answered, every failure of validation, cropImage or the
\* clipboard write as an "Offscreen: ..." error.
C15_ExactlyOneStructuredReply ==
    \A i \in Ops :
        /\ [](/\ wk[i].responses <= 1
              /\ wk[i].responses = 1 =>
                     /\ wk[i].response.kind = "reply"
                     /\ wk[i].st = (IF wk[i].response.success THEN "ok" ELSE "failed")
                     /\ wk[i].response.success => wk[i].response.error = ""
                     /\ ~wk[i].response.success =>
                            StartsWith(wk[i].response.error, "Offscreen: "))
        /\ (wk[i].st # "none") ~> (wk[i].responses = 1)

\* A rejected clipboard write was answered with its error.
C15_Witness ==
    \E i \in Ops :
        /\ wk[i].blob # "none"
        /\ wk[i].responses = 1
        /\ wk[i].response = ErrorReply("NotAllowedError", "Document is not focused.")

\* C16: the offscreen document has replied {success: true} to a request only
\* if its navigator.clipboard.write for that request was reached and resolved.
C16_SuccessOnlyAfterWrite ==
    \A i \in Ops :
        (wk[i].response.kind = "reply" /\ wk[i].response.success) =>
            /\ wk[i].wrote
            /\ wk[i].blob # "none"
            /\ wk[i].st = "ok"

\* The clipboard write of a request resolved and the request was answered with
\* success, while another request's write was rejected.
C16_Witness ==
    /\ \E i \in Ops : wk[i].response = Reply(TRUE, "") /\ wk[i].wrote
    /\ \E i \in Ops : /\ wk[i].blob # "none"
                      /\ ~wk[i].wrote
                      /\ wk[i].st = "failed"

C18_NoMessageAfterEscape ==
    [][\A k \in Ops :
          (ov[k].el = "removed" /\ msg[k].st = "none") =>
              (msg'[k].st = "none" /\ bg'[k].pc = "idle")]_vars

C20_EmptyBlobIsWritten ==
    \A i \in Ops :
        wk[i].cropped = "emptyBlob" =>
            /\ wk[i].blob = "emptyBlob"
            /\ wk[i].st \in {"writing", "ok", "failed", "killed", "dead"}
            /\ wk[i].responses = 1 =>
                   /\ wk[i].response.success <=> wk[i].wrote
                   /\ ~wk[i].wrote =>
                          wk[i].response = ErrorReply("NotAllowedError", "Document is not focused.")

\* A zero-byte blob was written to the clipboard and the request answered
\* with success.
C20_Witness ==
    \E i \in Ops : /\ wk[i].cropped = "emptyBlob"
                   /\ wk[i].wrote
                   /\ wk[i].response = Reply(TRUE, "")
                   /\ bg[i].reply = Reply(TRUE, "")

\* The integers a rounded coordinate may be.
Pixels == -2 .. 1500

\* The integer nearest to the number v (the upper one of two equally near),
\* raised to least when it is below.
NearestAtLeast(v, least) ==
    LET k == CHOOSE p \in Pixels : /\ 4 * p - 2 <= 4 * v.n + v.frac
                                   /\ 4 * v.n + v.frac < 4 * p + 2
    IN  IF k < least THEN least ELSE k

\* C21: for coords that pass validation, the canvas cropImage creates (the
\* raster of the blob it resolves with) is max(1, round(width)) by
\* max(1, round(height)) pixels, at least 1 in each dimension, and it is
\* drawn from the source rectangle of that size at (round(x), round(y)).
C21_RasterSize ==
    \A i \in Ops :
        /\ wk[i].blob # "none" => wk[i].canvas.made
        /\ wk[i].canvas.made =>
               /\ wk[i].canvas.width = NearestAtLeast(wk[i].coords.width, 1)
               /\ wk[i].canvas.height = NearestAtLeast(wk[i].coords.height, 1)
               /\ wk[i].canvas.width >= 1
               /\ wk[i].canvas.height >= 1
               /\ wk[i].canvas.sx = NearestAtLeast(wk[i].coords.x, -2)
               /\ wk[i].canvas.sy = NearestAtLeast(wk[i].coords.y, -2)
               /\ wk[i].canvas.sWidth = wk[i].canvas.width
               /\ wk[i].canvas.sHeight = wk[i].canvas.height

\* coords {x: 0, y: 0, width: 10, height: 10} on a 20x20 image gave a blob
\* from a 10x10 canvas.
C21_Witness ==
    \E i \in Ops :
        /\ wk[i].coords.x = JsNumber(0)
        /\ wk[i].coords.y = JsNumber(0)
        /\ wk[i].coords.width = JsNumber(10)
        /\ wk[i].coords.height = JsNumber(10)
        /\ wk[i].canvas.imgWidth = 20
        /\ wk[i].canvas.imgHeight = 20
        /\ wk[i].blob = "blob"
        /\ wk[i].canvas.width = 10
        /\ wk[i].canvas.height = 10

\* A width of 0.25 gave a canvas 1 pixel wide, a height of 10.5 one 11 high.
C21_WitnessRounded ==
    \E i \in Ops :
        /\ wk[i].coords.width = JsFraction(0, 1)
        /\ wk[i].coords.height = JsFraction(10, 2)
        /\ wk[i].canvas.made
        /\ wk[i].canvas.width = 1
        /\ wk[i].canvas.height = 11

\* C22: in the chrome.runtime.getContexts version, a request that awaits
\* another request's createDocument does not fail when that creation is
\* rejected: it goes on to the check for a document and to its own
\* createDocument, and sends no reply at that point.
C22_FailedConcurrentCreationTolerated ==
    [][\A i, j \in Ops :
          (/\ variant = 2
           /\ bg[j].pc = "awaitCreating"
           /\ bg[j].waitOn = i
           /\ bg[i].pc = "creating"
           /\ bg[i].call = "answered"
           /\ ~bg[i].resp.ok
           /\ bg'[i].pc # "creating") =>
              /\ bg'[j].pc \in {"hasDoc2", "hasDoc3", "creating"}
              /\ bg'[j].setup # "threw"
              /\ bg'[j].replies = bg[j].replies]_vars

\* C23: an activation of the overlay sends at most one captureArea message:
\* its timer is set only by a mouseup on the displayed overlay before any
\* message was sent, the message is sent only by that timer, which is then
\* spent, and an overlay once hidden or removed is never displayed again.
C23_OneMessagePerActivation ==
    [][\A k \in Ops :
          /\ (ov'[k].timer.set /\ ~ov[k].timer.set) =>
                 (ov[k].el = "shown" /\ ov'[k].el = "hidden" /\ msg[k].st = "none")
          /\ (ov[k].el # "none" /\ msg'[k].st = "sent" /\ msg[k].st # "sent") =>
                 (msg[k].st = "none" /\ ov[k].timer.set /\ ~ov'[k].timer.set)
          /\ ov[k].el \in {"hidden", "removed"} => ov'[k].el \in {"hidden", "removed"}]_vars

\* The message of an activation was sent although Escape was pressed, and
\* another activation's message is with the Coordinator.
C23_Witness ==
    /\ \E k \in Ops : ov[k].el = "removed" /\ msg[k].st = "sent" /\ ~ov[k].timer.set
    /\ \E k \in Ops : ov[k].el = "hidden" /\ msg[k].st = "received"

\* C24: creatingOffscreenPromise is set exactly while some request's
\* createDocument has not settled for the service worker, it is then the
\* promise of that request, and no second createDocument is started (which
\* would overwrite it) while one is in flight.
C24_MarkerTracksCreation ==
    /\ (creatingOffscreenPromise # 0) <=> (\E i \in Ops : bg[i].pc = "creating")
    /\ creatingOffscreenPromise # 0 => bg[creatingOffscreenPromise].pc = "creating"
    /\ \A i, j \in Ops : (bg[i].pc = "creating" /\ bg[j].pc = "creating") => i = j

\* C25: while a cropAndCopy request is awaiting the reply of the offscreen
\* document it was sent to, that document stays open: no job is ended by a
\* closeDocument of the Coordinator.
C25_NoCloseUnderRequest ==
    \A i \in Ops :
        /\ wk[i].st \in {"cropping", "writing"} => doc = wk[i].doc
        /\ wk[i].st # "killed"

\* C26: at most one overlay of content_script.js exists in the page (shown or
\* hidden, not yet cleaned up), and window.isAreaSelectorActive is true
\* exactly when one does.
C26_FlagTracksOverlay ==
    /\ \A k, l \in Ops :
           (ov[k].el \in {"shown", "hidden"} /\ ov[l].el \in {"shown", "hidden"}) => k = l
    /\ isAreaSelectorActive <=> (\E k \in Ops : ov[k].el \in {"shown", "hidden"})

\* C27: the offscreen document does nothing with a message whose target is
\* not 'offscreen', such as the captureArea message of the overlay: it has
\* replied, cropped or written only for a request whose cropAndCopy message
\* the Coordinator sent, and the reply the overlay holds for its message is
\* the Coordinator's.
C27_OnlyCoordinatorReplies ==
    \A i \in Ops :
        /\ (\/ wk[i].st \notin {"none", "over"}
            \/ wk[i].canvas.made
            \/ wk[i].blob # "none"
            \/ wk[i].wrote) => Pos(bg[i].order, "messaging") # 0
        /\ wk[i].responses >= 1 =>
               (wk[i].st = "over" \/ Pos(bg[i].order, "messaging") # 0)
        /\ wk[i].responses <= bg[i].replies
        /\ msg[i].st = "replied" =>
               /\ bg[i].replies >= 1
               /\ msg[i].reply = bg[i].reply

\* The overlay's captureArea message was delivered while an offscreen
\* document was open, which took no notice, and the Coordinator has begun the
\* request; another request's message was answered by the Coordinator.
C27_Witness ==
    /\ doc # 0
    /\ \E i \in Ops : /\ msg[i].st = "received"
                      /\ msg[i].senderTab
                      /\ bg[i].pc = "hasDoc1"
                      /\ wk[i] = WkInit
    /\ \E i \in Ops : msg[i].st = "replied" /\ msg[i].reply = bg[i].reply

====
